---- MODULE Spec2Model ----
(***************************************************************************)
(* Model of ytpl-ytsr-go: the playlist pagination walker of pkg/ytpl       *)
(* (GetPlaylist, getPlaylist, parsePage2, checkArgs) and the session       *)
(* context cache of pkg/ytsr (Search, search, saveCache).                  *)
(***************************************************************************)
EXTENDS Integers, Sequences, FiniteSets, TLC

\* ------------------------------------------------------------------------
\* Bounds of the model
\* ------------------------------------------------------------------------
MaxPageLen == 2     \* longest raw list the upstream sends (besides BigKinds)
MaxPages == 2       \* pages (first page included) decoded in one call
MaxLimit == 2       \* largest positive Options.Limit a caller sets
MaxCalls == 2       \* GetPlaylist calls with one Options object
MaxSearches == 2    \* Search calls, over all goroutines
MaxKeys == 2        \* keys of a raw search entry
MaxEntries == 2     \* raw items in a search response
MaxTextLen == 4     \* characters of an enumerated text
MaxDepth == 4       \* nesting of the values inside a continuation marker
MaxBadges == 2      \* entries of ownerBadges

\* ------------------------------------------------------------------------
\* Program constants
\* ------------------------------------------------------------------------
DefaultLimit == 100         \* checkArgs: options.Limit = 100
PlaylistRetries == 3        \* GetPlaylist: getPlaylist(linkOrID, options, 3)

Min(a, b) == IF a < b THEN a ELSE b

\* parsed.JSON == nil: every key lookup in it yields nil.
NoJSON ==
  [isNil |-> TRUE, sidebar |-> "nil", alerts |-> "none", contents |-> "nil", list |-> <<>>]

\* ========================================================================
\* pkg/ytpl: raw entries, item decoding, continuation lookup
\* ========================================================================

\* The entries of a raw list, by what the decoders see in them:
\*   video      an object with a "...VideoRenderer" key holding an object
\*   junk       anything parseItem drops and that is no continuation marker
\*   cont       a continuationItemRenderer whose token is non-empty
\*   contEmpty  a continuationItemRenderer yielding the empty token
Kinds == {"video", "junk", "cont", "contEmpty"}

\* The kinds the bounded lists are drawn from; contEmpty, which both loops
\* treat as junk, comes in the extra lists.
ListKinds == {"video", "junk", "cont"}

\* A raw list longer than the default limit: DefaultLimit+1 videos followed
\* by the continuation marker.
BigKinds ==
  [i \in 1..(DefaultLimit + 2) |-> IF i <= DefaultLimit + 1 THEN "video" ELSE "cont"]

KindSeqs ==
  (UNION {[1..n -> ListKinds] : n \in 0..MaxPageLen})
  \cup {BigKinds, <<"contEmpty", "cont">>, <<"video", "contEmpty">>}

\* The raw list of page p: every entry carries its position as videoId, so
\* that items of different entries are different items.
MkPage(kinds, p) ==
  [i \in 1..Len(kinds) |-> [kind |-> kinds[i], id |-> <<p, i>>]]

\* parseItem: the item of an entry with a VideoRenderer object, nil (the
\* empty tuple) for any other entry.
parseItem(rawItem) ==
  IF rawItem.kind = "video" THEN rawItem.id ELSE <<>>

\* getContinuationToken on one entry of the list.
EntryToken(item) ==
  IF item.kind = "cont" THEN "token" ELSE ""

\* The decode loop of a page over its first n entries: the non-nil results
\* of parseItem, in the order of the entries.
ParseLoop(raw, n) ==
  LET decoded == [i \in 1..n |-> parseItem(raw[i])]
      NotNil(item) == item # <<>>
  IN SelectSeq(decoded, NotNil)

ParseItemsNoLimit(raw, limit) == ParseLoop(raw, Len(raw))

\* The loop breaks at the first index i (from 0) with i >= limit.
ParseItems(raw, limit) == ParseLoop(raw, Min(Len(raw), limit))

\* The token loop of a page: the token of the first continuation marker
\* that yields a non-empty one.
FindToken(raw) ==
  LET found == {i \in 1..Len(raw) : EntryToken(raw[i]) # ""} IN
  IF found = {} THEN ""
  ELSE EntryToken(raw[CHOOSE i \in found : \A j \in found : i <= j])

\* Terminal conditions of the walker.
TerminalFirst(token, limit) == token = "" \/ limit < 1

TerminalNextNoBudget(token, limit) == token = ""

TerminalNext(token, limit) == token = "" \/ limit < 1

\* checkArgs on the Limit field.
checkArgs(options) ==
  IF options.Limit <= 0 THEN [options EXCEPT !.Limit = DefaultLimit] ELSE options

\* What a (function, error) pair looks like: info says whether a
\* PlaylistInfo came back, items are its Items.
NoReturn == [info |-> FALSE, items |-> <<>>, err |-> ""]
Failure(e) == [info |-> FALSE, items |-> <<>>, err |-> e]

\* parsePage2's return after the nested call came back.
parsePage2Return(own, nested) ==
  IF nested.err # "" THEN [items |-> own, err |-> nested.err]
  ELSE [items |-> own \o nested.items, err |-> ""]

\* getPlaylist's return after parsePage2 came back.
getPlaylistReturnSwapped(own, nested) ==
  IF nested.err # "" THEN [info |-> TRUE, items |-> own, err |-> nested.err]
  ELSE [info |-> TRUE, items |-> nested.items \o own, err |-> ""]

getPlaylistReturn(own, nested) ==
  IF nested.err # "" THEN [info |-> TRUE, items |-> own, err |-> nested.err]
  ELSE [info |-> TRUE, items |-> own \o nested.items, err |-> ""]

\* The returns of the recursion, innermost first: frames[1] is the first
\* page (getPlaylist), frames[k], k > 1, the k-th page (parsePage2).
RECURSIVE Unwind(_, _, _)
Unwind(frames, k, nested) ==
  IF k = 1 THEN getPlaylistReturn(frames[1].items, nested)
  ELSE Unwind(frames, k - 1, parsePage2Return(frames[k].items, nested))

\* ------------------------------------------------------------------------
\* Upstream responses of the playlist endpoints
\* ------------------------------------------------------------------------

\* The JSON tree of the first page, by the keys getPlaylist looks at.
OkTree(kinds) ==
  [isNil |-> FALSE, sidebar |-> "ok", alerts |-> "none", contents |-> "ok",
   list |-> kinds]

Trees ==
  {OkTree(k) : k \in KindSeqs}
  \cup [isNil : {FALSE}, sidebar : {"nil", "invalid", "ok"},
        alerts : {"none", "ERROR"}, contents : {"nil", "invalid", "ok"},
        list : {<<>>}]

\* The body of the playlist page, by what parseBody finds in it. A body with
\* inline initial data carries the API key and the client version as well.
Bodies ==
  [APIKey : BOOLEAN, ClientVersion : BOOLEAN, JSON : {NoJSON}]
  \cup [APIKey : {TRUE}, ClientVersion : {TRUE}, JSON : Trees]

\* The walk of getPlaylist from the sidebar check down to the raw video
\* list: the error it returns, "retry" for the recursive call, "" when the
\* raw list was reached.
TreeOutcome(json, r) ==
  IF json.sidebar = "nil" THEN "unknown Playlist"
  ELSE IF json.isNil THEN (IF r = 0 THEN "unsupported playlist" ELSE "retry")
  ELSE IF json.alerts = "ERROR" /\ json.contents = "nil" THEN "alert text"
  ELSE IF json.sidebar = "invalid" THEN "invalid sidebar structure"
  ELSE IF json.contents # "ok" THEN "invalid contents structure"
  ELSE ""

\* ========================================================================
\* pkg/ytsr: the session context cache and the search attempt
\* ========================================================================
SearchRetries == 3          \* Search: search(searchString, options, 3)

Procs == {1, 2}             \* goroutines calling Search

FallbackVersion == "2.20240606.06.00"   \* extractClientVersion: fallbackVersion
InitialParams == "EgIQAw%3D%3D"         \* var cache: PlaylistParams

\* var cache = &Cache{...}
InitialCache == [ClientVersion |-> FallbackVersion, PlaylistParams |-> InitialParams]

\* The results page, by what parseBody, extractClientVersion and
\* getPlaylistParams find in it: whether a JSON literal can be extracted,
\* the client version it names ("absent": no cver parameter and no
\* INNERTUBE_CONTEXT_CLIENT_VERSION), the params of its playlist filter
\* ("": no such filter in the body).
ResultPages ==
  {[json |-> TRUE, cver |-> "absent", params |-> ""],
   [json |-> TRUE, cver |-> "2.2025", params |-> ""],
   [json |-> TRUE, cver |-> "2.2025", params |-> "EgIQAQ"],
   [json |-> FALSE, cver |-> "absent", params |-> ""]}

extractClientVersion(page) ==
  IF page.cver = "absent" THEN FallbackVersion ELSE page.cver

getPlaylistParams(parsedData) == parsedData.Body

\* search: needsInitialRequest, from the options and the cache fields read
\* under the read lock.
needsInitialRequestSwapped(o, c) ==
  o.SafeSearch \/ c.ClientVersion = "" \/ c.PlaylistParams = ""

needsInitialRequest(o, c) ==
  ~o.SafeSearch \/ c.ClientVersion = "" \/ c.PlaylistParams = ""

\* saveCache: the cache after the write.
saveCacheOverwrite(c, parsedData) ==
  [ClientVersion |-> parsedData.version, PlaylistParams |-> getPlaylistParams(parsedData)]

saveCacheValue(c, parsedData) ==
  [ClientVersion |-> parsedData.version,
   PlaylistParams |-> IF getPlaylistParams(parsedData) # ""
                        THEN getPlaylistParams(parsedData)
                        ELSE c.PlaylistParams]

\* search: the attempt that clears the cache first.
ClearsCacheNever(r) == FALSE

ClearsCache(r) == r = 2

\* buildPostContext(clientVersion, opts), by the two fields that vary.
buildPostContext(clientVersion, o) ==
  [clientVersion |-> clientVersion, enableSafetyMode |-> o.SafeSearch]

\* search, after parsed is set: whether a search POST is sent.
SendsPostUnlessInline(o, parsedData) ==
  o.Type = "playlist" \/ parsedData.JSON = "nil"

SendsPost(o, parsedData) ==
  o.Type = "playlist" \/ o.SafeSearch \/ parsedData.JSON = "nil"

\* ------------------------------------------------------------------------
\* pkg/ytsr: decoding of the search response
\* ------------------------------------------------------------------------

\* The keys parseItem switches on.
RendererKeys ==
  {"videoRenderer", "playlistRenderer", "gridVideoRenderer", "channelRenderer",
   "lockupViewModel", "gridShelfViewModel"}

\* The keys of a raw entry: those, and one parseItem does not know.
EntryKeys == RendererKeys \cup {"trackingParams"}

\* A JSON object, by the fields parseVideo and parseLockupViewModel branch
\* on: desc, whether descriptionSnippet (or a non-empty
\* detailedMetadataSnippets array) is present; richSnippet, absent, an
\* object, or a string; contentType.
Object(desc, rich, ct) ==
  [t |-> "object", desc |-> desc, richSnippet |-> rich, contentType |-> ct]

\* The JSON values a key of a raw entry can hold.
JSONValues ==
  {[t |-> "null"], [t |-> "string"], [t |-> "array"],
   Object(FALSE, "absent", ""),
   Object(FALSE, "object", ""),
   Object(FALSE, "string", ""),
   Object(TRUE, "string", ""),
   Object(FALSE, "absent", "LOCKUP_CONTENT_TYPE_PLAYLIST")}

\* Raw entries: a JSON value that is not an object, or an object with at
\* most n keys.
RawEntries(n) ==
  {[t |-> "null"], [t |-> "string"], [t |-> "array"]}
    \cup {[t |-> "object", fields |-> f] :
            f \in UNION {[K -> JSONValues] :
                           K \in {X \in SUBSET EntryKeys : Cardinality(X) <= n}}}

Panic == [kind |-> "panic"]
Nil == [kind |-> "nil"]
SearchItem(type) == [kind |-> "item", Type |-> type]

\* parseVideo(obj): the item, or the panic of the unchecked assertion on
\* richSnippet, which is reached when no earlier description source matched.
parseVideo(obj) ==
  IF ~obj.desc /\ obj.richSnippet = "string" THEN Panic ELSE SearchItem("video")

parsePlaylist(obj) == SearchItem("playlist")

parseLockupViewModel(obj) ==
  IF obj.contentType = "LOCKUP_CONTENT_TYPE_PLAYLIST" THEN SearchItem("playlist") ELSE Nil

\* One case of parseItem's switch: value.(map[string]interface{}) panics
\* on a value that is not an object.
parseItemCase(key, value) ==
  IF key \in {"channelRenderer", "gridShelfViewModel"} THEN Nil
  ELSE IF value.t # "object" THEN Panic
  ELSE IF key \in {"videoRenderer", "gridVideoRenderer"} THEN parseVideo(value)
  ELSE IF key = "playlistRenderer" THEN parsePlaylist(value)
  ELSE parseLockupViewModel(value)

\* parseItem of pkg/ytsr: what it can return. The range over the map
\* visits the keys in an order that differs from run to run, and the first
\* key of the switch it meets decides.
ytsr_parseItem(item) ==
  IF item.t # "object" THEN {Nil}
  ELSE LET known == DOMAIN item.fields \cap RendererKeys IN
         IF known = {} THEN {Nil}
         ELSE {parseItemCase(k, item.fields[k]) : k \in known}

SearchDefaultLimit == 10    \* checkArgs of pkg/ytsr: opts.Limit = 10

\* checkArgs of pkg/ytsr, on the fields parseResponse reads.
ytsr_checkArgs(options) ==
  [Type |-> IF options.Type # "video" /\ options.Type # "playlist"
              THEN "video" ELSE options.Type,
   Limit |-> IF options.Limit <= 0 THEN SearchDefaultLimit ELSE options.Limit]

SearchResult(items) == [kind |-> "result", Items |-> items]

\* parseResponse's append: parsedItem != nil && parsedItem.Type == opts.Type.
AppendsAnyItem(parsedItem, o) == parsedItem.kind = "item"

AppendsItem(parsedItem, o) == parsedItem.kind = "item" /\ parsedItem.Type = o.Type

\* parseResponse's loop over the first n raw items: the results it can end
\* with, a panic of parseItem ending the call.
RECURSIVE parseResponseLoop(_, _, _)
parseResponseLoop(rawItems, n, o) ==
  IF n = 0 THEN {SearchResult(<<>>)}
  ELSE UNION {IF prev = Panic THEN {Panic}
              ELSE {IF parsedItem = Panic THEN Panic
                    ELSE IF AppendsItem(parsedItem, o)
                      THEN SearchResult(Append(prev.Items, parsedItem))
                    ELSE prev : parsedItem \in ytsr_parseItem(rawItems[n])} :
              prev \in parseResponseLoop(rawItems, n - 1, o)}

\* parseResponse(parsed, opts) on a response whose item section holds
\* rawItems: the loop stops at index opts.Limit.
parseResponse(rawItems, o) ==
  parseResponseLoop(rawItems, Min(Len(rawItems), o.Limit), o)

Entry(f) == [t |-> "object", fields |-> f]

\* The raw items of a search response.
ResponseEntries ==
  {[t |-> "string"],
   Entry("videoRenderer" :> Object(FALSE, "absent", "")),
   Entry("playlistRenderer" :> Object(FALSE, "absent", "")),
   Entry("channelRenderer" :> Object(FALSE, "absent", "")),
   Entry("videoRenderer" :> Object(FALSE, "absent", "")
           @@ "channelRenderer" :> Object(FALSE, "absent", "")),
   Entry("lockupViewModel" :> Object(FALSE, "absent", "LOCKUP_CONTENT_TYPE_PLAYLIST")),
   Entry("videoRenderer" :> [t |-> "null"])}

\* The searches decoded: the Type and Limit the caller asked for and the
\* raw items of the response.
ResponseArgs(len) ==
  [Type : {"video", "playlist", "channel"}, Limit : {0, 1},
   rawItems : UNION {[1..n -> ResponseEntries] : n \in 0..len}]

\* ------------------------------------------------------------------------
\* pkg/ytpl: getContinuationToken
\* ------------------------------------------------------------------------

\* JSON values as decoded into interface{}.
Str(x) == [t |-> "string", s |-> x]
Num == [t |-> "number"]
Obj(f) == [t |-> "object", fields |-> f]
Arr(q) == [t |-> "array", items |-> q]
Missing == [t |-> "missing"]

\* v[path[1]][path[2]]..., every step but the last asserted to be a map.
RECURSIVE Walk(_, _)
Walk(v, path) ==
  IF path = <<>> THEN v
  ELSE IF v.t = "object" /\ Head(path) \in DOMAIN v.fields
    THEN Walk(v.fields[Head(path)], Tail(path))
  ELSE Missing

\* The results of an ordered scan: the first result that is not "".
RECURSIVE FirstNonEmpty(_, _)
FirstNonEmpty(results, i) ==
  IF i > Len(results) THEN {""}
  ELSE (results[i] \ {""})
         \cup (IF "" \in results[i] THEN FirstNonEmpty(results, i + 1) ELSE {})

\* findTokenRecursively: case []interface{}.
IsSliceNever(v) == FALSE

IsSlice(v) == v.t = "array"

\* findTokenRecursively(obj): what it can return. The values of a map are
\* scanned in an order that differs from run to run, the first result that
\* is not "" being returned; the items of a slice in their order.
RECURSIVE findTokenRecursively(_)
findTokenRecursively(obj) ==
  IF obj.t = "object"
    THEN LET token == Walk(obj, <<"continuationCommand", "token">>) IN
           IF token.t = "string" THEN {token.s}
           ELSE LET r == [k \in DOMAIN obj.fields |->
                            findTokenRecursively(obj.fields[k])] IN
                  (UNION {r[k] : k \in DOMAIN r} \ {""})
                    \cup (IF \A k \in DOMAIN r : "" \in r[k] THEN {""} ELSE {})
  ELSE IF IsSlice(obj)
    THEN FirstNonEmpty([i \in 1..Len(obj.items) |->
                          findTokenRecursively(obj.items[i])], 1)
  ELSE {""}

\* The three direct shapes, in the order getContinuationToken tries them.
DirectShapes ==
  <<<<"continuationEndpoint", "continuationCommand", "token">>,
    <<"button", "buttonRenderer", "command", "continuationCommand", "token">>,
    <<"trigger", "continuationCommand", "token">>>>

\* getContinuationToken(item): what it can return.
getContinuationToken(item) ==
  LET renderer == Walk(item, <<"continuationItemRenderer">>)
      direct == {i \in 1..Len(DirectShapes) :
                   Walk(renderer, DirectShapes[i]).t = "string"}
  IN IF renderer.t # "object" THEN {""}
     ELSE IF direct # {}
       THEN {Walk(renderer, DirectShapes[CHOOSE i \in direct :
                                            \A j \in direct : i <= j]).s}
     ELSE findTokenRecursively(renderer)

\* The keys of the objects nested in a continuation marker.
MarkerKeys == {"continuationCommand", "token", "contents"}

\* JSON values nested up to depth d: a string or a number, wrapped in
\* objects and arrays, alone or next to another member.
RECURSIVE Nested(_)
Nested(d) ==
  IF d = 0 THEN {Str("T1"), Num}
  ELSE LET inner == Nested(d - 1) IN
         inner
           \cup {Obj(k :> x) : k \in MarkerKeys, x \in inner}
           \cup {Obj(k :> x @@ "clickTrackingParams" :> Str("T2")) :
                   k \in MarkerKeys, x \in inner}
           \cup {Arr(<<x>>) : x \in inner}
           \cup {Arr(<<Num, x>>) : x \in inner}

\* The token under the path of a direct shape.
Shape(path, x) ==
  IF Len(path) = 1 THEN Obj(path[1] :> Str(x))
  ELSE IF Len(path) = 2 THEN Obj(path[1] :> Obj(path[2] :> Str(x)))
  ELSE IF Len(path) = 3 THEN Obj(path[1] :> Obj(path[2] :> Obj(path[3] :> Str(x))))
  ELSE Obj(path[1] :> Obj(path[2] :> Obj(path[3] :> Obj(path[4] :>
         Obj(path[5] :> Str(x))))))

\* A continuationCommand object holding token x.
Command(x) == Shape(<<"continuationCommand", "token">>, x)

\* Values with two tokens, or with an empty token next to a token: below
\* two keys of one object, in one slice, at the object scanned and below
\* it, in the first direct shape and in the third.
Subtrees ==
  {Obj("contents" :> Command("T1") @@ "header" :> Command("T2")),
   Obj("contents" :> Arr(<<Command("T1"), Command("T2")>>)),
   Obj("contents" :> Arr(<<Command(""), Command("T1")>>)),
   Obj("contents" :> Command("") @@ "header" :> Command("T1")),
   Obj(Command("").fields @@ "contents" :> Command("T1")),
   Obj("contents" :> Obj(Command("").fields @@ "header" :> Command("T1"))),
   Obj("continuationEndpoint" :> Command("") @@ "trigger" :> Command("T1")),
   Obj("continuationEndpoint" :> Command("")),
   Obj("contents" :> Command("T1")),
   Arr(<<Command("T1"), Command("T2")>>),
   Str("T1")}

\* The raw entries getContinuationToken is called on: markers whose
\* renderer is a nested value, markers with the token in a direct shape,
\* markers with two tokens, and an entry that is no marker.
Markers(d) ==
  {Obj("continuationItemRenderer" :> x) : x \in Nested(d) \cup Subtrees}
    \cup {Obj("continuationItemRenderer" :> Shape(DirectShapes[i], "T1")) :
            i \in 1..Len(DirectShapes)}
    \cup {Obj("continuationItemRenderer" :>
                Obj("contents" :> Shape(<<"continuationCommand", "token">>, "T1")
                      @@ "trigger" :> Shape(<<"continuationCommand", "token">>, "T2"))),
          Obj("continuationItemRenderer" :>
                Obj("contents" :> Arr(<<Shape(<<"continuationCommand", "token">>, "T1"),
                                         Shape(<<"continuationCommand", "token">>, "T2")>>))),
          Obj("playlistVideoRenderer" :> Shape(<<"continuationCommand", "token">>, "T1")),
          Missing}

\* ------------------------------------------------------------------------
\* pkg/ytpl: GetPlaylistID
\* ------------------------------------------------------------------------

\* The strings an ID is drawn from: a prefix followed by n copies of one
\* character; "a" stands for the class [a-zA-Z0-9-_], "!" for a character
\* outside it, "%" for one that in addition starts a URL escape.
IDPrefixes == {"", "FL", "PL", "UU", "LL", "RD", "OLAK5uy_", "UC", "XY"}
IDChars == {"a", "!", "%"}
IDLengths == {0, 4, 15, 16, 22, 32, 33, 41, 42}

IDStrings ==
  {x \in [prefix : IDPrefixes, ch : IDChars, n : IDLengths] : x.n = 0 => x.ch = "a"}

EmptyString == [prefix |-> "", ch |-> "a", n |-> 0]

\* The body of the string is in [a-zA-Z0-9-_]*.
WordChars(x) == x.n = 0 \/ x.ch = "a"

\* PlaylistRegex: ^(FL|PL|UU|LL|RD)[a-zA-Z0-9-_]{16,41}$
PlaylistRegex(x) ==
  x.prefix \in {"FL", "PL", "UU", "LL", "RD"} /\ WordChars(x) /\ x.n \in 16..41

\* AlbumRegex: ^OLAK5uy_[a-zA-Z0-9-_]{33}$
AlbumRegex(x) == x.prefix = "OLAK5uy_" /\ WordChars(x) /\ x.n = 33

\* ChannelRegex: ^UC[a-zA-Z0-9-_]{22,32}$
ChannelRegex(x) == x.prefix = "UC" /\ WordChars(x) /\ x.n \in 22..32

YTHosts == {"www.youtube.com", "youtube.com", "music.youtube.com"}

\* The host part of a link.
Hosts == YTHosts \cup {"WWW.YOUTUBE.COM", "www.youtube.com:443", "example.com"}

\* The path of a link, by its segments.
Paths ==
  {<<>>, <<"playlist">>, <<"channel", [prefix |-> "UC", ch |-> "a", n |-> 22]>>,
   <<"channel", [prefix |-> "UC", ch |-> "a", n |-> 4]>>, <<"user", "name">>,
   <<"c", "name">>}

NoList == [present |-> FALSE, value |-> EmptyString]
List(x) == [present |-> TRUE, value |-> x]

\* The strings GetPlaylistID is called with: an ID string, or a link
\* scheme://host/path?list=value, with or without the scheme and the
\* list parameter.
Links(hosts) ==
  {[kind |-> "id", s |-> x] : x \in IDStrings}
    \cup [kind : {"url"}, scheme : {TRUE}, host : hosts, path : Paths,
          list : {NoList} \cup {List(x) : x \in IDStrings}]
    \cup [kind : {"url"}, scheme : {FALSE}, host : {"www.youtube.com"}, path : Paths,
          list : {NoList, List([prefix |-> "PL", ch |-> "a", n |-> 32])}]

\* url.Parse(linkOrID): the error, or Host, the path segments and the
\* list parameter of Query(). A string without a scheme has no Host, its
\* first segment being part of the path; an invalid escape in the path
\* fails the parse, and one in a query value drops the parameter.
urlParse(link) ==
  IF link.kind = "id"
    THEN IF link.s.ch = "%" /\ link.s.n > 0
           THEN [err |-> TRUE, Host |-> "", Path |-> <<>>, list |-> NoList]
           ELSE [err |-> FALSE, Host |-> "", Path |-> <<link.s>>, list |-> NoList]
  ELSE [err |-> FALSE,
        Host |-> IF link.scheme THEN link.host ELSE "",
        Path |-> IF link.scheme THEN link.path ELSE <<link.host>> \o link.path,
        list |-> IF link.list.present /\ link.list.value.ch = "%"
                      /\ link.list.value.n > 0
                   THEN NoList ELSE link.list]

Ok(x) == [id |-> x, err |-> ""]
Err(e) == [id |-> EmptyString, err |-> e]

\* "UU" + id[2:], for an ID with a two-character prefix.
ToUploads(x) == [x EXCEPT !.prefix = "UU"]

\* toChannelList(ref): the GET fails, the page names no channel, or it does.
toChannelList ==
  {Err("transport"), Err("unable to resolve the ref"),
   Ok([prefix |-> "UU", ch |-> "a", n |-> 22])}

\* GetPlaylistID: the loop over YTHosts.
ValidHostOnlyWWW(host) == host = "www.youtube.com"

ValidHost(host) == host \in YTHosts

\* GetPlaylistID, after the parse: the list parameter, then the path.
GetPlaylistIDFromURL(parsedURL) ==
  IF ~ValidHost(parsedURL.Host) THEN {Err("not a known youtube link")}
  ELSE IF parsedURL.list.present
    THEN IF PlaylistRegex(parsedURL.list.value) \/ AlbumRegex(parsedURL.list.value)
           THEN {Ok(parsedURL.list.value)}
         ELSE IF parsedURL.list.value.prefix = "RD"
           THEN {Err("mixes not supported")}
         ELSE {Err("invalid or unknown list query in url")}
  ELSE LET pathParts == parsedURL.Path
           maybeType == pathParts[Len(pathParts) - 1]
           maybeID == pathParts[Len(pathParts)]
       IN IF Len(pathParts) < 2 THEN {Err("unable to find a id")}
          ELSE IF maybeType = "channel" /\ ChannelRegex(maybeID)
            THEN {Ok(ToUploads(maybeID))}
          ELSE IF maybeType \in {"user", "c"} THEN toChannelList
          ELSE {Err("unable to find a id")}

\* GetPlaylistID(linkOrID): what it can return.
GetPlaylistID(link) ==
  IF link.kind = "id" /\ link.s = EmptyString
    THEN {Err("the linkOrId has to be a non-empty string")}
  ELSE IF link.kind = "id" /\ (PlaylistRegex(link.s) \/ AlbumRegex(link.s))
    THEN {Ok(link.s)}
  ELSE IF link.kind = "id" /\ ChannelRegex(link.s)
    THEN {Ok(ToUploads(link.s))}
  ELSE IF urlParse(link).err THEN {Err("invalid URL")}
  ELSE GetPlaylistIDFromURL(urlParse(link))

\* ValidateID, after the parse: the list parameter, then the path.
ValidateIDFromURLAnyList(parsedURL) ==
  ValidHost(parsedURL.Host) /\ parsedURL.list.present

ValidateIDFromURL(parsedURL) ==
  IF ~ValidHost(parsedURL.Host) THEN FALSE
  ELSE IF parsedURL.list.present
    THEN PlaylistRegex(parsedURL.list.value) \/ AlbumRegex(parsedURL.list.value)
  ELSE LET pathParts == parsedURL.Path
           maybeType == pathParts[Len(pathParts) - 1]
           maybeID == pathParts[Len(pathParts)]
       IN IF Len(pathParts) < 2 THEN FALSE
          ELSE IF maybeType = "channel" THEN ChannelRegex(maybeID)
          ELSE maybeType \in {"user", "c"}

\* ValidateID(linkOrID).
ValidateID(link) ==
  IF link.kind = "id" /\ link.s = EmptyString THEN FALSE
  ELSE IF link.kind = "id"
          /\ (PlaylistRegex(link.s) \/ AlbumRegex(link.s) \/ ChannelRegex(link.s))
    THEN TRUE
  ELSE IF urlParse(link).err THEN FALSE
  ELSE ValidateIDFromURL(urlParse(link))

\* ------------------------------------------------------------------------
\* pkg/ytpl: parseText, parseNumFromText
\* ------------------------------------------------------------------------

\* Texts are sequences of characters.
Digits == {"0", "1", "2", "3", "4", "5", "6", "7", "8", "9"}

DigitValue ==
  "0" :> 0 @@ "1" :> 1 @@ "2" :> 2 @@ "3" :> 3 @@ "4" :> 4 @@ "5" :> 5
    @@ "6" :> 6 @@ "7" :> 7 @@ "8" :> 8 @@ "9" :> 9

\* The characters of the texts enumerated.
TextChars == {"0", "1", ",", ".", "-", "v"}

MaxInt64Digits == <<"9", "2", "2", "3", "3", "7", "2", "0", "3", "6", "8", "5", "4", "7", "7", "5", "8", "0", "7">>

\* The texts a rich-text node carries: all texts of up to len
\* characters, and some longer ones.
Texts(len) ==
  UNION {[1..n -> TextChars] : n \in 0..len}
    \cup {<<"1", ",", "2", "3", "4", " ", "v", "i", "e", "w", "s">>,
          <<"N", "o", " ", "v", "i", "e", "w", "s">>,
          <<"1", ".", "2", "K", " ", "v", "i", "e", "w", "s">>,
          MaxInt64Digits,
          [MaxInt64Digits EXCEPT ![19] = "8"],
          MaxInt64Digits \o <<"0">>,
          <<"0", "0">> \o MaxInt64Digits}

\* The rich-text nodes with a given text: the string, the simpleText
\* wrapper, and runs (the text in two runs, with an entry that is no run
\* object between them).
TextNodes(text) ==
  LET half == Len(text) \div 2 IN
    {[t |-> "string", s |-> text],
     [t |-> "object", simpleText |-> [t |-> "string", s |-> text], runs |-> Missing],
     [t |-> "object", simpleText |-> Missing,
      runs |-> Arr(<<Obj("text" :> [t |-> "string", s |-> SubSeq(text, 1, half)]),
                     Num,
                     Obj("text" :> [t |-> "string", s |-> SubSeq(text, half + 1, Len(text))])>>)]}

\* What parseNumFromText is called on.
TextObjs(len) ==
  UNION {TextNodes(text) : text \in Texts(len)}
    \cup {[t |-> "nil"], Num,
          [t |-> "object", simpleText |-> Num, runs |-> Missing]}

\* The concatenation of the run texts: runs that are objects with a string
\* under "text".
RECURSIVE ConcatRuns(_, _)
ConcatRuns(runs, i) ==
  IF i > Len(runs) THEN <<>>
  ELSE (IF Walk(runs[i], <<"text">>).t = "string" THEN Walk(runs[i], <<"text">>).s
        ELSE <<>>) \o ConcatRuns(runs, i + 1)

\* parseText(textObj) of pkg/ytpl.
parseText(textObj) ==
  IF textObj.t = "string" THEN textObj.s
  ELSE IF textObj.t = "object"
    THEN IF textObj.simpleText.t = "string" THEN textObj.simpleText.s
         ELSE IF textObj.runs.t = "array" THEN ConcatRuns(textObj.runs.items, 1)
         ELSE <<>>
  ELSE <<>>

\* regexp `[^\d,.]`: the characters ReplaceAllString deletes.
DeletedKeepingSign(c) == c \notin Digits \cup {",", ".", "-"}

Deleted(c) == c \notin Digits \cup {",", "."}

\* The digits without leading zeros.
RECURSIVE StripZeros(_)
StripZeros(ds) ==
  IF Len(ds) > 1 /\ Head(ds) = "0" THEN StripZeros(Tail(ds)) ELSE ds

\* a > b for two digit sequences of one length.
RECURSIVE DigitsGreater(_, _)
DigitsGreater(a, b) ==
  IF a = <<>> THEN FALSE
  ELSE IF Head(a) # Head(b) THEN DigitValue[Head(a)] > DigitValue[Head(b)]
  ELSE DigitsGreater(Tail(a), Tail(b))

\* The integers: a sign and the decimal digits, without leading zeros.
IntOf(neg, ds) == [neg |-> neg, digits |-> ds]
Zero == IntOf(FALSE, <<"0">>)

\* strconv.Atoi(str): an optional sign and decimal digits, in the range of
\* a 64-bit int.
Atoi(str) ==
  LET signed == str # <<>> /\ Head(str) \in {"+", "-"}
      body == IF signed THEN Tail(str) ELSE str
      neg == signed /\ Head(str) = "-"
      ds == StripZeros(body)
      limit == IF neg THEN [MaxInt64Digits EXCEPT ![19] = "8"] ELSE MaxInt64Digits
  IN IF body = <<>> \/ \E i \in 1..Len(body) : body[i] \notin Digits
       THEN [err |-> TRUE, num |-> Zero]
     ELSE IF Len(ds) > 19 \/ (Len(ds) = 19 /\ DigitsGreater(ds, limit))
       THEN [err |-> TRUE, num |-> Zero]
     ELSE [err |-> FALSE, num |-> IntOf(neg /\ ds # <<"0">>, ds)]

\* parseNumFromText(textObj).
parseNumFromText(textObj) ==
  LET text == parseText(textObj)
      numStr == SelectSeq(SelectSeq(text, LAMBDA c : ~Deleted(c)), LAMBDA c : c # ",")
  IN IF text = <<>> THEN Zero
     ELSE IF ~Atoi(numStr).err THEN Atoi(numStr).num
     ELSE Zero

\* ------------------------------------------------------------------------
\* pkg/ytsr: parseText, parseIntegerFromText, the views of parseVideo
\* ------------------------------------------------------------------------

\* parseText(text) of pkg/ytsr: the string under "content" comes first.
ytsr_parseText(text) ==
  IF text.t = "string" THEN text.s
  ELSE IF text.t = "object"
    THEN IF "content" \in DOMAIN text /\ text.content.t = "string" THEN text.content.s
         ELSE IF text.simpleText.t = "string" THEN text.simpleText.s
         ELSE IF text.runs.t = "array" THEN ConcatRuns(text.runs.items, 1)
         ELSE <<>>
  ELSE <<>>

\* regexp `\D+`: the characters ReplaceAllString deletes.
DeletedNonDigit(c) == c \notin Digits

\* parseIntegerFromText(text).
parseIntegerFromText(text) ==
  LET textStr == ytsr_parseText(text)
      numStr == SelectSeq(textStr, LAMBDA c : ~DeletedNonDigit(c))
  IN IF textStr = <<>> THEN Zero
     ELSE IF ~Atoi(numStr).err THEN Atoi(numStr).num
     ELSE Zero

\* parseVideo: item.Views for the viewCountText of the renderer, a pointer
\* to the count when the count is greater than 0, nil otherwise.
parseVideoViews(viewCount) ==
  LET views == parseIntegerFromText(viewCount) IN
    IF ~views.neg /\ views # Zero THEN [present |-> TRUE, views |-> views]
    ELSE [present |-> FALSE, views |-> Zero]

\* The values under viewCountText: the rich-text nodes, and one with its
\* text under "content".
ViewCountTexts(len) ==
  TextObjs(len)
    \cup {[t |-> "object", content |-> [t |-> "string", s |-> <<"1", "0">>],
           simpleText |-> Missing, runs |-> Missing]}

\* ------------------------------------------------------------------------
\* pkg/ytsr: parseAuthor, parseOwner
\* ------------------------------------------------------------------------

\* strings.ToUpper on the ASCII letters.
UpperCase ==
  "a" :> "A" @@ "b" :> "B" @@ "c" :> "C" @@ "d" :> "D" @@ "e" :> "E"
    @@ "f" :> "F" @@ "g" :> "G" @@ "h" :> "H" @@ "i" :> "I" @@ "j" :> "J"
    @@ "k" :> "K" @@ "l" :> "L" @@ "m" :> "M" @@ "n" :> "N" @@ "o" :> "O"
    @@ "p" :> "P" @@ "q" :> "Q" @@ "r" :> "R" @@ "s" :> "S" @@ "t" :> "T"
    @@ "u" :> "U" @@ "v" :> "V" @@ "w" :> "W" @@ "x" :> "X" @@ "y" :> "Y"
    @@ "z" :> "Z"

ToUpper(str) ==
  [i \in 1..Len(str) |-> IF str[i] \in DOMAIN UpperCase THEN UpperCase[str[i]] ELSE str[i]]

\* strings.Contains(str, substr).
Contains(str, substr) ==
  \E i \in 0..(Len(str) - Len(substr)) : SubSeq(str, i + 1, i + Len(substr)) = substr

VERIFIED == <<"V", "E", "R", "I", "F", "I", "E", "D">>
OFFICIAL == <<"O", "F", "F", "I", "C", "I", "A", "L">>
ARTIST == <<"A", "R", "T", "I", "S", "T">>

\* The tooltips of the owner badges.
Tooltips ==
  {VERIFIED,
   <<"V", "e", "r", "i", "f", "i", "e", "d">>,
   <<"O", "f", "f", "i", "c", "i", "a", "l", " ", "A", "r", "t", "i", "s", "t", " ",
     "C", "h", "a", "n", "n", "e", "l">>,
   <<"U", "N", "O", "F", "F", "I", "C", "I", "A", "L">>,
   <<"A", "r", "t", "i", "s", "t">>,
   <<"M", "e", "m", "b", "e", "r", "s">>}

\* The entries of ownerBadges: a badge with a tooltip, a badge whose tooltip
\* is no string, a badge without a renderer, an entry that is no object.
Badges ==
  {Obj("metadataBadgeRenderer" :> Obj("tooltip" :> Str(x))) : x \in Tooltips}
    \cup {Obj("metadataBadgeRenderer" :> Obj("tooltip" :> Num)),
          Obj("style" :> Str(VERIFIED)),
          Num}

\* The renderers parseAuthor and parseOwner are called on, by the fields
\* they branch on: ownerRun, whether the first run of the owner text
\* (ownerText; shortBylineText or longBylineText) is an object; ownerBadges.
Renderers(n) ==
  [ownerRun : BOOLEAN,
   ownerBadges : {Missing} \cup {Arr(q) : q \in UNION {[1..k -> Badges] : k \in 0..n}}]

\* The tooltips of the badges the loops over ownerBadges read.
BadgeTooltips(obj) ==
  IF obj.ownerBadges.t # "array" THEN {}
  ELSE {Walk(obj.ownerBadges.items[i], <<"metadataBadgeRenderer", "tooltip">>).s :
          i \in {j \in 1..Len(obj.ownerBadges.items) :
                   Walk(obj.ownerBadges.items[j],
                        <<"metadataBadgeRenderer", "tooltip">>).t = "string"}}

\* parseAuthor: the condition that sets author.Verified.
AuthorVerified(tooltip) == Contains(tooltip, VERIFIED) \/ Contains(tooltip, OFFICIAL)

\* parseOwner: the condition that sets owner.Verified.
OwnerVerified(tooltip) ==
  \/ Contains(ToUpper(tooltip), VERIFIED)
  \/ Contains(ToUpper(tooltip), OFFICIAL)
  \/ Contains(ToUpper(tooltip), ARTIST)

\* parseAuthor(obj).
parseAuthor(obj) ==
  IF ~obj.ownerRun THEN Nil
  ELSE [kind |-> "author",
        Verified |-> \E tooltip \in BadgeTooltips(obj) : AuthorVerified(tooltip)]

\* parseOwner(obj).
parseOwner(obj) ==
  IF ~obj.ownerRun THEN Nil
  ELSE [kind |-> "owner",
        Verified |-> \E tooltip \in BadgeTooltips(obj) : OwnerVerified(tooltip)]

VARIABLES
  pc,        \* where the GetPlaylist call is: idle, get, browse, page, done
  opts,      \* the Options object the call works on (the caller's, unless nil was passed)
  limitArg,  \* Options.Limit as the caller passed it (0 for nil options)
  retries,   \* getPlaylist's retries argument
  parsed,    \* parseBody's result: APIKey, ClientVersion, JSON
  pages,     \* per decoded page, in fetch order: its raw list and parsedItems
  ret,       \* what GetPlaylist returned
  posts,     \* continuation requests issued by the call
  dumps,     \* diagnostic dumps written by logger
  calls,     \* GetPlaylist calls made so far
  cache,     \* ytsr: the package-level cache (ClientVersion, PlaylistParams)
  mu,        \* ytsr: cache.mu, the goroutine holding it for writing and the readers
  spc,       \* ytsr: per goroutine, where its Search call is
  sopts,     \* ytsr: per goroutine, the options of its call after checkArgs
  sretries,  \* ytsr: per goroutine, the retries argument of its attempt
  sparsed,   \* ytsr: per goroutine, parsed (JSON, context version and safety mode, Body params)
  sret,      \* ytsr: per goroutine, what Search returned
  callIx,    \* ytsr: per goroutine, which Search call (index in hist) it is running
  hist,      \* ytsr: the Search calls in the order they started: safe-search flag,
             \* initial-data fetches issued, cache found populated at every access
  fn,        \* the function called on its own ("" when none is)
  arg,       \* its argument
  out        \* what it returned, Pending until it has

plVars == <<pc, opts, limitArg, retries, parsed, pages, ret, posts, dumps, calls>>

srVars == <<cache, mu, spc, sopts, sretries, sparsed, sret, callIx, hist>>

fnVars == <<fn, arg, out>>

vars == <<plVars, srVars, fnVars>>

Limits == 0..MaxLimit

\* DefaultOptions(), by the fields search branches on.
DefaultOptions == [SafeSearch |-> FALSE, Type |-> "video"]

SearchOptions == [SafeSearch : BOOLEAN, Type : {"video", "playlist"}]

NoParsedData == [JSON |-> "nil", version |-> "", enableSafetyMode |-> FALSE, Body |-> ""]

NoSearchReturn == [err |-> "", source |-> ""]

Populated(c) == c.ClientVersion # "" /\ c.PlaylistParams # ""

NoParsed == [APIKey |-> FALSE, ClientVersion |-> FALSE, JSON |-> NoJSON]

Pending == [kind |-> "pending"]

\* No GetPlaylist call has been made.
PlInit ==
  /\ pc = "idle"
  /\ opts = [Limit |-> 0]
  /\ limitArg = 0
  /\ retries = PlaylistRetries
  /\ parsed = NoParsed
  /\ pages = <<>>
  /\ ret = NoReturn
  /\ posts = 0
  /\ dumps = 0
  /\ calls = 0

\* The package-level cache as declared; no Search call has been made.
SrInit ==
  /\ cache = InitialCache
  /\ mu = [writer |-> 0, readers |-> {}]
  /\ spc = [p \in Procs |-> "idle"]
  /\ sopts = [p \in Procs |-> DefaultOptions]
  /\ sretries = [p \in Procs |-> SearchRetries]
  /\ sparsed = [p \in Procs |-> NoParsedData]
  /\ sret = [p \in Procs |-> NoSearchReturn]
  /\ callIx = [p \in Procs |-> 0]
  /\ hist = <<>>

Init ==
  /\ PlInit
  /\ SrInit
  /\ fn = ""
  /\ arg = [t |-> "none"]
  /\ out = Pending

\* GetPlaylist(linkOrID, options): a new Options object with the given
\* Limit (nil options behave as Limit 0), or the object of the previous
\* call again; checkArgs, then the GET of the playlist page.
GetPlaylist(fresh, n) ==
  /\ UNCHANGED <<srVars, fnVars>>
  /\ pc \in {"idle", "done"}
  /\ calls < MaxCalls
  /\ ~fresh => calls > 0
  /\ LET options == IF fresh THEN [Limit |-> n] ELSE opts IN
       /\ limitArg' = options.Limit
       /\ opts' = checkArgs(options)
  /\ retries' = PlaylistRetries
  /\ parsed' = NoParsed
  /\ pages' = <<>>
  /\ ret' = NoReturn
  /\ posts' = 0
  /\ calls' = calls + 1
  /\ pc' = "get"
  /\ UNCHANGED dumps

\* getPlaylist from the sidebar check to its return or to the first
\* continuation request.
getPlaylistTail(json) ==
  LET e == TreeOutcome(json, retries) IN
  IF e = "retry" THEN
    /\ pc' = "get"
    /\ retries' = retries - 1
    /\ opts' = checkArgs(opts)
    /\ UNCHANGED <<pages, ret, posts, dumps>>
  ELSE IF e # "" THEN
    /\ pc' = "done"
    /\ ret' = Failure(e)
    /\ dumps' = IF e = "unsupported playlist" THEN dumps + 1 ELSE dumps
    /\ UNCHANGED <<opts, retries, pages, posts>>
  ELSE
    LET rawVideoList == MkPage(json.list, 1)
        items == ParseItems(rawVideoList, opts.Limit)
        limit == opts.Limit - Len(items)
        token == FindToken(rawVideoList)
    IN /\ opts' = [opts EXCEPT !.Limit = limit]
       /\ pages' = <<[raw |-> rawVideoList, items |-> items]>>
       /\ IF TerminalFirst(token, limit)
            THEN /\ pc' = "done"
                 /\ ret' = [info |-> TRUE, items |-> items, err |-> ""]
                 /\ posts' = posts
            ELSE /\ pc' = "page"
                 /\ ret' = ret
                 /\ posts' = posts + 1
       /\ UNCHANGED <<retries, dumps>>

\* The GET of the playlist page fails.
GetFails ==
  /\ UNCHANGED <<srVars, fnVars>>
  /\ pc = "get"
  /\ pc' = "done"
  /\ ret' = Failure("transport")
  /\ UNCHANGED <<opts, limitArg, retries, parsed, pages, posts, dumps, calls>>

\* getPlaylist: parsed.APIKey == "" || parsed.Context.Client.ClientVersion == "".
MissingKeyOrVersionInverted(body) == ~body.APIKey \/ body.ClientVersion

MissingKeyOrVersion(body) == ~body.APIKey \/ ~body.ClientVersion

\* The GET returns a body: parseBody, then either the tree it embeds, or
\* the browse request, or the missing-key error.
GetReturns(body) ==
  /\ UNCHANGED <<srVars, fnVars>>
  /\ pc = "get"
  /\ parsed' = body
  /\ IF ~body.JSON.isNil THEN getPlaylistTail(body.JSON)
     ELSE IF MissingKeyOrVersion(body) THEN
       /\ pc' = "done"
       /\ ret' = Failure("missing api key or client version")
       /\ UNCHANGED <<opts, retries, pages, posts, dumps>>
     ELSE
       /\ pc' = "browse"
       /\ UNCHANGED <<opts, retries, pages, ret, posts, dumps>>
  /\ UNCHANGED <<limitArg, calls>>

\* The browse POST fails: parsed.JSON stays nil.
BrowseFails ==
  /\ UNCHANGED <<srVars, fnVars>>
  /\ pc = "browse"
  /\ getPlaylistTail(NoJSON)
  /\ UNCHANGED <<limitArg, parsed, calls>>

\* The browse POST returns a tree.
BrowseReturns(json) ==
  /\ UNCHANGED <<srVars, fnVars>>
  /\ pc = "browse"
  /\ parsed' = [parsed EXCEPT !.JSON = json]
  /\ getPlaylistTail(json)
  /\ UNCHANGED <<limitArg, calls>>

\* A continuation POST fails: parsePage2 returns (nil, err) and every
\* caller up the recursion returns what it returns on an error.
PageFails ==
  /\ UNCHANGED <<srVars, fnVars>>
  /\ pc = "page"
  /\ pc' = "done"
  /\ ret' = Unwind(pages, Len(pages), [items |-> <<>>, err |-> "transport"])
  /\ UNCHANGED <<opts, limitArg, retries, parsed, pages, posts, dumps, calls>>

\* A continuation POST returns a JSON without the continuationItems list:
\* parsePage2 returns an empty list.
PageMalformed ==
  /\ UNCHANGED <<srVars, fnVars>>
  /\ pc = "page"
  /\ pc' = "done"
  /\ ret' = Unwind(pages, Len(pages), [items |-> <<>>, err |-> ""])
  /\ UNCHANGED <<opts, limitArg, retries, parsed, pages, posts, dumps, calls>>

\* A continuation POST returns a raw list: parsePage2 decodes it, lowers
\* the budget, looks for the next token and either recurses or returns.
PageReturns(kinds) ==
  /\ UNCHANGED <<srVars, fnVars>>
  /\ pc = "page"
  /\ Len(pages) < MaxPages
  /\ LET wrapper == MkPage(kinds, Len(pages) + 1)
         parsedItems == ParseItems(wrapper, opts.Limit)
         limit == opts.Limit - Len(parsedItems)
         nextToken == FindToken(wrapper)
         frames == Append(pages, [raw |-> wrapper, items |-> parsedItems])
     IN /\ opts' = [opts EXCEPT !.Limit = limit]
        /\ pages' = frames
        /\ IF TerminalNext(nextToken, limit)
             THEN /\ pc' = "done"
                  /\ ret' = Unwind(frames, Len(frames) - 1,
                                   [items |-> parsedItems, err |-> ""])
                  /\ posts' = posts
             ELSE /\ pc' = "page"
                  /\ ret' = ret
                  /\ posts' = posts + 1
  /\ UNCHANGED <<limitArg, retries, parsed, dumps, calls>>

Next ==
  \/ \E n \in Limits : GetPlaylist(TRUE, n)
  \/ GetPlaylist(FALSE, 0)
  \/ GetFails
  \/ \E body \in Bodies : GetReturns(body)
  \/ BrowseFails
  \/ \E json \in Trees : BrowseReturns(json)
  \/ PageFails
  \/ PageMalformed
  \/ \E kinds \in KindSeqs : PageReturns(kinds)

Spec == Init /\ [][Next]_vars

\* ------------------------------------------------------------------------
\* pkg/ytsr: Search
\* ------------------------------------------------------------------------

\* Where search(searchString, options, r) goes first: the cache clear, the
\* "unable to find JSON" return, or the read of the cache.
AttemptPcNoStop(r) ==
  IF ClearsCache(r) THEN "clearLock" ELSE "rlock"

AttemptPc(r) ==
  IF ClearsCache(r) THEN "clearLock" ELSE IF r = 0 THEN "done" ELSE "rlock"

AttemptRet(r) ==
  IF ~ClearsCache(r) /\ r = 0 THEN [err |-> "unable to find JSON", source |-> ""]
  ELSE NoSearchReturn

\* The call with index i found the cache in state c.
NoteCache(h, i, c) ==
  [h EXCEPT ![i].populated = @ /\ Populated(c)]

\* The return of search: its locals are gone.
Return(p, r) ==
  /\ spc' = [spc EXCEPT ![p] = "done"]
  /\ sret' = [sret EXCEPT ![p] = r]
  /\ sopts' = [sopts EXCEPT ![p] = DefaultOptions]
  /\ sretries' = [sretries EXCEPT ![p] = SearchRetries]
  /\ sparsed' = [sparsed EXCEPT ![p] = NoParsedData]

\* Search(searchString, options): checkArgs and the first attempt,
\* retries = 3.
Search(p, o) ==
  /\ UNCHANGED <<plVars, fnVars>>
  /\ spc[p] \in {"idle", "done"}
  /\ Len(hist) < MaxSearches
  /\ sopts' = [sopts EXCEPT ![p] = o]
  /\ sretries' = [sretries EXCEPT ![p] = SearchRetries]
  /\ sparsed' = [sparsed EXCEPT ![p] = NoParsedData]
  /\ sret' = [sret EXCEPT ![p] = NoSearchReturn]
  /\ spc' = [spc EXCEPT ![p] = AttemptPc(SearchRetries)]
  /\ callIx' = [callIx EXCEPT ![p] = Len(hist) + 1]
  /\ hist' = Append(hist, [safe |-> o.SafeSearch, fetches |-> 0,
                           populated |-> Populated(cache)])
  /\ UNCHANGED <<cache, mu>>

\* A Search call that starts when no other call is running.
SearchAlone(p, o) ==
  /\ \A q \in Procs \ {p} : spc[q] \in {"idle", "done"}
  /\ Search(p, o)

\* search line 94: the recursive call with retries-1, up to its first lock
\* or to its "unable to find JSON" return.
Retry(p) ==
  IF AttemptPc(sretries[p] - 1) = "done"
    THEN Return(p, AttemptRet(sretries[p] - 1))
    ELSE /\ sretries' = [sretries EXCEPT ![p] = @ - 1]
         /\ spc' = [spc EXCEPT ![p] = AttemptPc(sretries[p] - 1)]
         /\ sparsed' = [sparsed EXCEPT ![p] = NoParsedData]
         /\ UNCHANGED <<sret, sopts>>

\* cache.mu.Lock() of the clear.
ClearLock(p) ==
  /\ UNCHANGED <<plVars, fnVars>>
  /\ spc[p] = "clearLock"
  /\ mu.writer = 0 /\ mu.readers = {}
  /\ mu' = [mu EXCEPT !.writer = p]
  /\ spc' = [spc EXCEPT ![p] = "clearing"]
  /\ UNCHANGED <<cache, sopts, sretries, sparsed, sret, callIx, hist>>

\* The two assignments of the clear and cache.mu.Unlock(); retries is not 0
\* here, so checkArgs and the read of the cache follow.
ClearUnlock(p) ==
  /\ UNCHANGED <<plVars, fnVars>>
  /\ spc[p] = "clearing"
  /\ cache' = [ClientVersion |-> "", PlaylistParams |-> ""]
  /\ mu' = [mu EXCEPT !.writer = 0]
  /\ spc' = [spc EXCEPT ![p] = "rlock"]
  /\ hist' = NoteCache(hist, callIx[p], cache')
  /\ UNCHANGED <<sopts, sretries, sparsed, sret, callIx>>

\* cache.mu.RLock().
RLock(p) ==
  /\ UNCHANGED <<plVars, fnVars>>
  /\ spc[p] = "rlock"
  /\ mu.writer = 0
  /\ mu' = [mu EXCEPT !.readers = @ \cup {p}]
  /\ spc' = [spc EXCEPT ![p] = "reading"]
  /\ UNCHANGED <<cache, sopts, sretries, sparsed, sret, callIx, hist>>

\* needsInitialRequest is computed and cache.mu.RUnlock(); the GET of the
\* results page is sent when it is true.
RUnlock(p) ==
  /\ UNCHANGED <<plVars, fnVars>>
  /\ spc[p] = "reading"
  /\ mu' = [mu EXCEPT !.readers = @ \ {p}]
  /\ LET needs == needsInitialRequest(sopts[p], cache) IN
       /\ spc' = [spc EXCEPT ![p] = IF needs THEN "get" ELSE "usecache"]
       /\ hist' = [NoteCache(hist, callIx[p], cache) EXCEPT ![callIx[p]].fetches =
                     IF needs THEN @ + 1 ELSE @]
  /\ UNCHANGED <<cache, sopts, sretries, sparsed, sret, callIx>>

\* getInitialData fails in the transport.
InitialDataFails(p) ==
  /\ UNCHANGED <<plVars, fnVars>>
  /\ spc[p] = "get"
  /\ Return(p, [err |-> "transport", source |-> ""])
  /\ UNCHANGED <<cache, mu, callIx, hist>>

\* getInitialData returns the results page: parseBody.
InitialDataReturns(p, page) ==
  /\ UNCHANGED <<plVars, fnVars>>
  /\ spc[p] = "get"
  /\ IF ~page.json
       THEN Return(p, [err |-> "could not extract JSON data", source |-> ""])
       ELSE /\ spc' = [spc EXCEPT ![p] = "saveLock"]
            /\ sparsed' = [sparsed EXCEPT ![p] =
                             LET context == buildPostContext(extractClientVersion(page),
                                                             sopts[p])
                             IN [JSON |-> "inline", version |-> context.clientVersion,
                                 enableSafetyMode |-> context.enableSafetyMode,
                                 Body |-> page.params]]
            /\ UNCHANGED <<sret, sopts, sretries>>
  /\ UNCHANGED <<cache, mu, callIx, hist>>

\* saveCache: cache.mu.Lock().
SaveLock(p) ==
  /\ UNCHANGED <<plVars, fnVars>>
  /\ spc[p] = "saveLock"
  /\ mu.writer = 0 /\ mu.readers = {}
  /\ mu' = [mu EXCEPT !.writer = p]
  /\ spc' = [spc EXCEPT ![p] = "saving"]
  /\ UNCHANGED <<cache, sopts, sretries, sparsed, sret, callIx, hist>>

\* saveCache: the writes and the deferred Unlock; then search goes on to
\* the POST, or straight to parseResponse with the inline data.
SaveUnlock(p) ==
  /\ UNCHANGED <<plVars, fnVars>>
  /\ spc[p] = "saving"
  /\ cache' = saveCacheValue(cache, sparsed[p])
  /\ mu' = [mu EXCEPT !.writer = 0]
  /\ hist' = NoteCache(hist, callIx[p], cache')
  /\ IF SendsPost(sopts[p], sparsed[p])
       THEN /\ spc' = [spc EXCEPT ![p] = "post"]
            /\ UNCHANGED <<sret, sopts, sretries, sparsed>>
       ELSE Return(p, [err |-> "", source |-> sparsed[p].JSON])
  /\ UNCHANGED callIx

\* The else branch of needsInitialRequest: the context is built from
\* cache.ClientVersion, read without the lock; the POST follows.
UseCache(p) ==
  /\ UNCHANGED <<plVars, fnVars>>
  /\ spc[p] = "usecache"
  /\ sparsed' = [sparsed EXCEPT ![p] =
                   LET context == buildPostContext(cache.ClientVersion, sopts[p])
                   IN [JSON |-> "nil", version |-> context.clientVersion,
                       enableSafetyMode |-> context.enableSafetyMode, Body |-> ""]]
  /\ spc' = [spc EXCEPT ![p] = "post"]
  /\ UNCHANGED <<cache, mu, sopts, sretries, sret, callIx, hist>>

\* The search POST fails: parsed.JSON is nil.
PostFails(p) ==
  /\ UNCHANGED <<plVars, fnVars>>
  /\ spc[p] = "post"
  /\ IF sopts[p].Type = "playlist"
       THEN Return(p, [err |-> "cannot search for playlist", source |-> ""])
       ELSE IF sretries[p] = 1
       THEN Return(p, [err |-> "transport", source |-> ""])
       ELSE Retry(p)
  /\ UNCHANGED <<cache, mu, callIx, hist>>

\* The search POST returns: a JSON object, which parseResponse decodes,
\* or the JSON null, which leaves parsed.JSON nil.
PostReturns(p, null) ==
  /\ UNCHANGED <<plVars, fnVars>>
  /\ spc[p] = "post"
  /\ IF null
       THEN Retry(p)
       ELSE Return(p, [err |-> "", source |-> "post"])
  /\ UNCHANGED <<cache, mu, callIx, hist>>

SearchSteps(p) ==
  \/ ClearLock(p)
  \/ ClearUnlock(p)
  \/ RLock(p)
  \/ RUnlock(p)
  \/ InitialDataFails(p)
  \/ \E page \in ResultPages : InitialDataReturns(p, page)
  \/ SaveLock(p)
  \/ SaveUnlock(p)
  \/ UseCache(p)
  \/ PostFails(p)
  \/ \E null \in BOOLEAN : PostReturns(p, null)

\* Search calls of several goroutines, interleaved.
SrNext ==
  \E p \in Procs :
    \/ \E o \in SearchOptions : Search(p, o)
    \/ SearchSteps(p)

SpecSr == Init /\ [][SrNext]_vars

\* Search calls one after another: a call starts when no other is running.
SrSeqNext ==
  \E p \in Procs :
    \/ \E o \in SearchOptions : SearchAlone(p, o)
    \/ SearchSteps(p)

SpecSrSeq == Init /\ [][SrSeqNext]_vars

\* ------------------------------------------------------------------------
\* Functions called on their own
\* ------------------------------------------------------------------------

\* The functions called.
Functions ==
  {"parseItem", "parseResponse", "getContinuationToken", "GetPlaylistID",
   "parseNumFromText", "findTokenRecursively", "parseVideoViews",
   "parseAuthor", "parseOwner", "ValidateID"}

\* The arguments function f is called with.
Args(f) ==
  CASE f = "parseItem" -> RawEntries(MaxKeys)
    [] f = "parseResponse" -> ResponseArgs(MaxEntries)
    [] f = "getContinuationToken" -> Markers(MaxDepth)
    [] f = "GetPlaylistID" -> Links(Hosts)
    [] f = "parseNumFromText" -> TextObjs(MaxTextLen)
    [] f = "findTokenRecursively" -> Subtrees
    [] f = "parseVideoViews" -> ViewCountTexts(MaxTextLen)
    [] f = "parseAuthor" -> Renderers(MaxBadges)
    [] f = "parseOwner" -> Renderers(MaxBadges)
    [] f = "ValidateID" -> Links(Hosts)

FnInit ==
  /\ PlInit
  /\ SrInit
  /\ fn \in Functions
  /\ arg \in Args(fn)
  /\ out = Pending

\* The call returns r (or panics).
Returns(r) ==
  /\ out = Pending
  /\ out' = r
  /\ UNCHANGED <<plVars, srVars, fn, arg>>

\* parseItem(item) of pkg/ytsr.
CallParseItem ==
  /\ fn = "parseItem"
  /\ \E r \in ytsr_parseItem(arg) : Returns(r)

\* checkArgs and parseResponse, as search runs them on a response.
CallParseResponse ==
  /\ fn = "parseResponse"
  /\ \E r \in parseResponse(arg.rawItems, ytsr_checkArgs(arg)) : Returns(r)

\* getContinuationToken(item) of pkg/ytpl.
CallGetContinuationToken ==
  /\ fn = "getContinuationToken"
  /\ \E x \in getContinuationToken(arg) : Returns(Str(x))

\* GetPlaylistID(linkOrID) of pkg/ytpl.
CallGetPlaylistID ==
  /\ fn = "GetPlaylistID"
  /\ \E r \in GetPlaylistID(arg) : Returns(r)

\* parseNumFromText(textObj) of pkg/ytpl.
CallParseNumFromText ==
  /\ fn = "parseNumFromText"
  /\ Returns(parseNumFromText(arg))

\* findTokenRecursively(obj) of pkg/ytpl.
CallFindTokenRecursively ==
  /\ fn = "findTokenRecursively"
  /\ \E x \in findTokenRecursively(arg) : Returns(Str(x))

\* parseVideo of pkg/ytsr on a renderer with viewCountText: item.Views.
CallParseVideoViews ==
  /\ fn = "parseVideoViews"
  /\ Returns(parseVideoViews(arg))

\* parseAuthor(obj) of pkg/ytsr.
CallParseAuthor ==
  /\ fn = "parseAuthor"
  /\ Returns(parseAuthor(arg))

\* parseOwner(obj) of pkg/ytsr.
CallParseOwner ==
  /\ fn = "parseOwner"
  /\ Returns(parseOwner(arg))

\* ValidateID(linkOrID) of pkg/ytpl.
CallValidateID ==
  /\ fn = "ValidateID"
  /\ Returns([kind |-> "bool", value |-> ValidateID(arg)])

FnNext ==
  \/ CallValidateID
  \/ CallParseAuthor
  \/ CallParseOwner
  \/ CallParseVideoViews
  \/ CallFindTokenRecursively
  \/ CallParseNumFromText
  \/ CallGetPlaylistID
  \/ CallParseItem
  \/ CallParseResponse
  \/ CallGetContinuationToken

SpecFn == FnInit /\ [][FnNext]_vars

\* ========================================================================
\* Properties of GetPlaylist (specification Spec)
\* ========================================================================

\* The limit in force for the current call: the caller's Options.Limit, or
\* the default when that is <= 0.
EffectiveLimit == IF limitArg <= 0 THEN DefaultLimit ELSE limitArg

RECURSIVE ItemsUpTo(_, _)
\* The parsedItems of the first k pages, in fetch order.
ItemsUpTo(frames, k) ==
  IF k = 0 THEN <<>> ELSE ItemsUpTo(frames, k - 1) \o frames[k].items

\* Items decoded so far by the current call.
Accumulated == Len(ItemsUpTo(pages, Len(pages)))

\* Entries of a raw list that parseItem decodes.
DecodableIn(raw) == Cardinality({i \in 1..Len(raw) : parseItem(raw[i]) # <<>>})

RECURSIVE DecodableUpTo(_, _)
DecodableUpTo(frames, k) ==
  IF k = 0 THEN 0 ELSE DecodableUpTo(frames, k - 1) + DecodableIn(frames[k].raw)

\* Decodable entries of all pages fetched by the current call.
Decodable == DecodableUpTo(pages, Len(pages))

\* The token the last fetched page carries.
LastToken == IF pages = <<>> THEN "" ELSE FindToken(pages[Len(pages)].raw)

\* a comes before b in fetch order: an earlier page, or the same page and
\* an earlier raw entry.
Before(a, b) == a[1] < b[1] \/ (a[1] = b[1] /\ a[2] < b[2])

\* C1: the items returned by GetPlaylist, and the items accumulated at any
\* point of the walk, never number more than the effective limit (the
\* caller's Options.Limit, or 100 when that is <= 0).
C1_LimitRespected ==
  /\ Len(ret.items) <= EffectiveLimit
  /\ Accumulated <= EffectiveLimit

\* C1 witness: a call with the default limit returned exactly 100 items
\* from two pages that held more.
C1_Witness ==
  /\ pc = "done" /\ ret.err = ""
  /\ limitArg = 0
  /\ Len(pages) >= 2
  /\ Decodable > DefaultLimit
  /\ Len(ret.items) = DefaultLimit

\* C2: when a continuation request fails, GetPlaylist returns the error
\* together with every item decoded from all pages fetched before it.
C2_PartialSuccessKeepsAllPages ==
  (pc = "done" /\ ret.err = "transport" /\ pages # <<>>)
    => (ret.info /\ ret.items = ItemsUpTo(pages, Len(pages)))

\* C3: a call that returns without error returns exactly
\* min(limit, decodable items of the chain of pages) items.
C3_ExactCount ==
  (pc = "done" /\ ret.err = "" /\ ret.info)
    => Len(ret.items) = Min(EffectiveLimit, Decodable)

\* C4: a step that issues a continuation request leaves the running total
\* of accumulated items below the limit: once the total has reached the
\* limit no continuation request is issued, token or not.
C4_NoRequestOnceLimitReached ==
  [][posts' = posts + 1 => Accumulated' < EffectiveLimit']_vars

\* C4 witness: the call ended on a continuation page that filled the limit
\* and carried a next token, which was not followed.
C4_Witness ==
  /\ pc = "done" /\ ret.err = ""
  /\ Len(pages) >= 2
  /\ Accumulated = EffectiveLimit
  /\ LastToken # ""
  /\ posts = Len(pages) - 1

\* C5: the returned items are in fetch order: items of an earlier page come
\* before items of a later page, items of one page in raw-list order.
C5_FetchOrder ==
  \A i \in 1..(Len(ret.items) - 1) : Before(ret.items[i], ret.items[i + 1])

\* C5 witness: a successful call returned an item of the first page
\* followed by two items of a later page.
C5_Witness ==
  /\ pc = "done" /\ ret.err = ""
  /\ Len(ret.items) >= 3
  /\ ret.items[1][1] = 1
  /\ ret.items[2][1] > 1
  /\ ret.items[3][1] = ret.items[2][1]

\* C6: a call that ends with no JSON tree at all (no inline data, browse
\* POST failed) has used up its retries, written the diagnostic dump and
\* returns "unsupported playlist".
C6_RetriesThenUnsupported ==
  (pc = "done" /\ parsed.APIKey /\ parsed.ClientVersion /\ parsed.JSON.isNil)
    => (retries = 0 /\ dumps > 0 /\ ret.err = "unsupported playlist")

\* C19 (as stated): when the playlist response reports an alert of type
\* ERROR and carries no contents, GetPlaylist returns the text of the alert
\* as its error, on the first attempt.
C19_AlertErrorSurfaces ==
  (/\ pc = "done"
   /\ ~parsed.JSON.isNil
   /\ parsed.JSON.alerts = "ERROR"
   /\ parsed.JSON.contents = "nil")
    => (ret.err = "alert text" /\ retries = PlaylistRetries)

\* What getPlaylist does with the tree json once it holds it: the error of
\* the walk down to the raw list, or the first page decoded from the list.
BuiltFrom(json) ==
  LET e == TreeOutcome(json, retries)
      rawVideoList == MkPage(json.list, 1)
      items == ParseItems(rawVideoList, opts.Limit)
  IN IF e # "" THEN pc' = "done" /\ ret' = Failure(e)
     ELSE /\ pages' = <<[raw |-> rawVideoList, items |-> items]>>
          /\ pc' \in {"page", "done"}
          /\ pc' = "done" => ret' = [info |-> TRUE, items |-> items, err |-> ""]

\* C24: when the page embeds no initial data but the API key and the
\* client version were recovered, the call goes on to the browse POST
\* without returning an error; a call makes one browse POST, after its
\* first GET; and when the POST returns a tree, the result is built from
\* that tree as from an inline one.
C24_BrowseFallback ==
  [][/\ (pc = "get" /\ pc' # "get" /\ parsed'.JSON.isNil
          /\ parsed'.APIKey /\ parsed'.ClientVersion)
         => (pc' = "browse" /\ ret' = NoReturn)
     /\ (pc # "browse" /\ pc' = "browse")
         => (pc = "get" /\ retries = PlaylistRetries)
     /\ (pc = "browse" /\ pc' # "browse" /\ ~parsed'.JSON.isNil)
         => BuiltFrom(parsed'.JSON)]_vars

\* C24 witness: the page came without initial data, with the API key and
\* the client version, and the browse POST is under way.
C24_Witness ==
  /\ pc = "browse"
  /\ parsed.JSON.isNil
  /\ parsed.APIKey
  /\ parsed.ClientVersion
  /\ ret = NoReturn

\* C27 (as stated): when a GetPlaylist call has returned, the Options
\* object the caller passed holds the limit the caller set.
C27_OptionsLimitUnchanged ==
  (pc = "done" /\ limitArg > 0) => opts.Limit = limitArg

\* C29 (as stated): a GetPlaylist call issues at most as many continuation
\* requests as its effective limit, whatever the pages hold.
C29_AtMostLimitRequests == posts <= EffectiveLimit

\* ========================================================================
\* Properties of Search (specifications SpecSr, SpecSrSeq)
\* ========================================================================

\* The Search call with index i in hist has returned.
Finished(i) == \A p \in Procs : callIx[p] = i => spc[p] = "done"

\* Goroutine p leaves the read of the cache in this step.
LeavesRead(p) == spc[p] = "reading" /\ spc'[p] # "reading"

\* Goroutine p completes saveCache in this step.
LeavesSave(p) == spc[p] = "saving" /\ spc'[p] # "saving"

\* C7 (as stated): a Search call with SafeSearch that returned a result
\* has issued an initial-data fetch of its own.
C7_SafeSearchAlwaysFetches ==
  \A p \in Procs :
    (spc[p] = "done" /\ callIx[p] > 0 /\ sret[p].err = "")
      => (hist[callIx[p]].safe => hist[callIx[p]].fetches >= 1)

\* C7 (amended): an attempt with SafeSearch issues the initial-data fetch
\* exactly when a cache field is empty at its read of the cache; an attempt
\* without SafeSearch always issues it.
C7_SafeSearchFetchesIffCacheEmpty ==
  [][\A p \in Procs :
       LeavesRead(p) =>
         /\ spc'[p] \in {"get", "usecache"}
         /\ spc'[p] = "get" <=>
              (~sopts[p].SafeSearch \/ cache.ClientVersion = ""
                 \/ cache.PlaylistParams = "")
         /\ hist'[callIx[p]].fetches =
              hist[callIx[p]].fetches + (IF spc'[p] = "get" THEN 1 ELSE 0)]_vars

\* C7 witness: a SafeSearch attempt found both fields populated and goes on
\* without a fetch.
C7_Witness ==
  \E p \in Procs :
    /\ spc[p] = "usecache"
    /\ sopts[p].SafeSearch
    /\ hist[callIx[p]].fetches = 0

C9_BothFieldsOverwritten ==
  [][\A p \in Procs :
       LeavesSave(p) =>
         /\ cache'.ClientVersion = sparsed[p].version
         /\ cache'.PlaylistParams = sparsed[p].Body]_vars

\* C9 (amended): saveCache always overwrites ClientVersion with the
\* version of the fetch (a non-empty string, the fallback when the page
\* names none); it overwrites PlaylistParams only when the page yields a
\* non-empty value, and otherwise the cached PlaylistParams survives.
C9_ParamsOverwrittenWhenFound ==
  [][\A p \in Procs :
       LeavesSave(p) =>
         /\ sparsed[p].version # ""
         /\ cache'.ClientVersion = sparsed[p].version
         /\ sparsed[p].Body # "" => cache'.PlaylistParams = sparsed[p].Body
         /\ sparsed[p].Body = "" => cache'.PlaylistParams = cache.PlaylistParams]_vars

\* C9 witness: after a fetch that yielded a client version but no playlist
\* params, the cache holds the new version and the old params.
C9_Witness ==
  \E p \in Procs :
    /\ spc[p] = "post"
    /\ sparsed[p].JSON = "inline"
    /\ sparsed[p].Body = ""
    /\ sparsed[p].version = "2.2025"
    /\ cache = [ClientVersion |-> "2.2025", PlaylistParams |-> InitialParams]

ReadsCache(p) ==
  \/ LeavesRead(p)
  \/ spc[p] = "usecache" /\ spc'[p] # "usecache"

\* Goroutine p writes the cache fields in this step: the clear, or saveCache.
WritesCache(p) ==
  \/ spc[p] = "clearing" /\ spc'[p] # "clearing"
  \/ LeavesSave(p)

\* C11 (as stated): every read of the cache fields is made by a goroutine
\* holding cache.mu for reading while nobody holds it for writing, and every
\* write by the goroutine holding it for writing while nobody reads; so no
\* read of a field falls between the Lock and the Unlock of a writer.
C11_CacheAccessUnderLock ==
  [][\A p \in Procs :
       /\ ReadsCache(p) => (p \in mu.readers /\ mu.writer = 0)
       /\ WritesCache(p) => (mu.writer = p /\ mu.readers = {})]_vars

\* The number of the attempt goroutine p is in: search was entered with
\* retries = 3 for the first, 2 for the second, 1 for the third.
Attempt(p) == SearchRetries - sretries[p] + 1

\* Goroutine p's attempt ends in this step: the outcome of its POST.
EndsAttempt(p) == spc[p] = "post" /\ spc'[p] # "post"

\* C12: a running Search call is in its first, second or third attempt; a
\* new attempt starts only where the previous one ended, with the next
\* number; and when the third attempt ends without a JSON tree the call
\* returns an error instead of starting another attempt.
C12_AtMostThreeAttempts ==
  [][\A p \in Procs :
       /\ Attempt(p)' \in 1..3
       /\ (EndsAttempt(p) /\ spc'[p] # "done") =>
            /\ Attempt(p) < 3
            /\ Attempt(p)' = Attempt(p) + 1
       /\ (spc[p] \notin {"idle", "done", "post"} /\ spc'[p] # "done") =>
            Attempt(p)' = Attempt(p)
       /\ (EndsAttempt(p) /\ Attempt(p) = 3 /\ sret'[p].source # "post") =>
            /\ spc'[p] = "done"
            /\ sret'[p].err # ""]_vars

\* C12 witness: a call whose three attempts all ended without a JSON tree
\* has returned "unable to find JSON".
C12_Witness ==
  \E p \in Procs :
    /\ spc[p] = "done"
    /\ sret[p].err = "unable to find JSON"

\* C26 (as stated): a Search that found both cache fields non-empty under
\* the read lock builds the context of its POST with a non-empty client
\* version, whatever the other goroutines do to the cache meanwhile.
C26_ReuseBuildsWithObservedVersion ==
  \A p \in Procs :
    (spc[p] = "post" /\ sparsed[p].JSON = "nil") => sparsed[p].version # ""

\* The call goroutine p is in was made with SafeSearch set.
SafeCall(p) == callIx[p] > 0 /\ hist[callIx[p]].safe

\* C28: in a Search call with SafeSearch set, every search POST carries a
\* context with enableSafetyMode, and the call returns items only as the
\* step that decodes the response of such a POST, never the inline data.
C28_SafeSearchItemsFromSafePost ==
  [][\A p \in Procs :
       SafeCall(p) =>
         /\ spc[p] = "post" => sparsed[p].enableSafetyMode
         /\ (spc[p] # "done" /\ spc'[p] = "done" /\ sret'[p].err = "")
              => (/\ spc[p] = "post"
                  /\ sparsed[p].enableSafetyMode
                  /\ sret'[p].source = "post")]_vars

\* C28 witness: a SafeSearch call for videos fetched the results page,
\* which held inline data, and returned the items of its POST.
C28_Witness ==
  \E p \in Procs :
    /\ SafeCall(p)
    /\ hist[callIx[p]].fetches > 0
    /\ spc[p] = "done"
    /\ sret[p] = [err |-> "", source |-> "post"]

\* ========================================================================
\* Properties of functions called on their own (specification SpecFn)
\* ========================================================================

\* The call in progress has returned (or panicked).
Returned == out # Pending

\* C13 (as stated): a raw entry with a videoRenderer key holding a video
\* object and a channelRenderer key decodes to a video item, on every run.
C13_VideoWinsOverChannel ==
  (/\ fn = "parseItem"
   /\ Returned
   /\ arg.t = "object"
   /\ DOMAIN arg.fields = {"videoRenderer", "channelRenderer"}
   /\ arg.fields["videoRenderer"] = Object(FALSE, "absent", ""))
    => out = SearchItem("video")

\* The kind checkArgs turns the requested kind into.
NormalizedType(type) == IF type \in {"video", "playlist"} THEN type ELSE "video"

\* A raw entry with a key that can decode to an item.
CanDecode(e) ==
  /\ e.t = "object"
  /\ DOMAIN e.fields \cap {"videoRenderer", "playlistRenderer", "gridVideoRenderer",
                            "lockupViewModel"} # {}

\* C14: every item of a SearchResult has a non-empty kind tag, equal to the
\* normalized requested kind, and the result holds no more items than the
\* response has entries that can be decoded: an entry that cannot be
\* decoded contributes none.
C14_ItemsHaveRequestedKind ==
  (fn = "parseResponse" /\ Returned /\ out.kind = "result") =>
    /\ \A i \in 1..Len(out.Items) :
         /\ out.Items[i].Type # ""
         /\ out.Items[i].Type = NormalizedType(arg.Type)
    /\ Len(out.Items) <=
         Cardinality({i \in 1..Len(arg.rawItems) : CanDecode(arg.rawItems[i])})

\* C14 witness: a search for an unsupported kind, normalized to video,
\* whose response holds a channel entry and a video entry, returned the
\* video alone.
C14_Witness ==
  /\ fn = "parseResponse"
  /\ out.kind = "result"
  /\ arg.Type = "channel"
  /\ Len(arg.rawItems) = 2
  /\ arg.rawItems[1] = Entry("channelRenderer" :> Object(FALSE, "absent", ""))
  /\ out.Items = <<SearchItem("video")>>

\* C20 (as stated): parseItem of pkg/ytsr returns an item or no item for
\* every raw entry, and never panics.
C20_ParseItemTotal ==
  (fn = "parseItem" /\ Returned) => out.kind \in {"item", "nil"}

\* The tokens of a JSON value: the strings under a continuationCommand.token
\* pair at any depth.
RECURSIVE TokensIn(_)
TokensIn(v) ==
  IF v.t = "object"
    THEN (IF Walk(v, <<"continuationCommand", "token">>).t = "string"
            THEN {Walk(v, <<"continuationCommand", "token">>).s} ELSE {})
           \cup UNION {TokensIn(v.fields[k]) : k \in DOMAIN v.fields}
  ELSE IF v.t = "array"
    THEN UNION {TokensIn(v.items[i]) : i \in 1..Len(v.items)}
  ELSE {}

\* The marker has one token, and none of the three direct shapes leads to
\* a string.
OnlyByFallback(item) ==
  LET renderer == Walk(item, <<"continuationItemRenderer">>) IN
    /\ renderer.t = "object"
    /\ \A i \in 1..Len(DirectShapes) : Walk(renderer, DirectShapes[i]).t # "string"
    /\ Cardinality(TokensIn(renderer)) = 1

\* C15: for a continuation marker whose single token is in none of the
\* three direct shapes, getContinuationToken returns that token.
C15_FallbackFindsToken ==
  (fn = "getContinuationToken" /\ Returned /\ OnlyByFallback(arg)) =>
    out.s \in TokensIn(Walk(arg, <<"continuationItemRenderer">>))

\* C15 witness: the token of a marker that holds it inside an array, below
\* another element, has been returned.
C15_Witness ==
  /\ fn = "getContinuationToken"
  /\ arg = Obj("continuationItemRenderer" :>
                 Obj("contents" :>
                       Arr(<<Num, Obj("continuationCommand" :> Obj("token" :> Str("T1")))>>)))
  /\ out = Str("T1")

\* The playlist-ID shape: FL, PL, UU, LL or RD followed by 16 to 41
\* characters of [a-zA-Z0-9-_], or OLAK5uy_ followed by 33 of them.
PlaylistIDShape(x) ==
  /\ x.n = 0 \/ x.ch = "a"
  /\ \/ x.prefix \in {"FL", "PL", "UU", "LL", "RD"} /\ 16 <= x.n /\ x.n <= 41
     \/ x.prefix = "OLAK5uy_" /\ x.n = 33

\* The call's argument is a URL on a known host with a list= value.
KnownHostWithList ==
  /\ arg.kind = "url"
  /\ arg.scheme
  /\ arg.host \in {"www.youtube.com", "youtube.com", "music.youtube.com"}
  /\ arg.list.present

\* C16: GetPlaylistID returns a string of the playlist-ID shape unchanged,
\* with no error, and for a URL on a known host whose list= value has that
\* shape it returns that value.
C16_PlaylistIDUnchanged ==
  (fn = "GetPlaylistID" /\ Returned) =>
    /\ (arg.kind = "id" /\ PlaylistIDShape(arg.s)) => out = [id |-> arg.s, err |-> ""]
    /\ (KnownHostWithList /\ PlaylistIDShape(arg.list.value)) =>
         out = [id |-> arg.list.value, err |-> ""]

\* C16 witness: the list= value of a link on music.youtube.com has been
\* returned.
C16_Witness ==
  /\ fn = "GetPlaylistID"
  /\ arg.kind = "url"
  /\ arg.host = "music.youtube.com"
  /\ arg.list.present
  /\ out = [id |-> [prefix |-> "PL", ch |-> "a", n |-> 32], err |-> ""]

\* C17 (as stated): for a raw ID starting with RD, and for a URL on a known
\* host whose list= value starts with RD, GetPlaylistID returns the error
\* "mixes not supported" and no ID.
C17_MixesRejected ==
  (/\ fn = "GetPlaylistID"
   /\ Returned
   /\ \/ arg.kind = "id" /\ arg.s.prefix = "RD"
      \/ KnownHostWithList /\ arg.list.value.prefix = "RD")
    => out = [id |-> EmptyString, err |-> "mixes not supported"]

\* The text with every character that is not a digit, a comma or a period
\* deleted, and then the commas.
Remainder(text) == SelectSeq(text, LAMBDA c : c \in Digits \cup {"."})

\* The remainder is a decimal integer that fits a 64-bit int.
ParsesAsInteger(ds) ==
  /\ ds # <<>>
  /\ \A i \in 1..Len(ds) : ds[i] \in Digits
  /\ \/ Len(StripZeros(ds)) < 19
     \/ Len(StripZeros(ds)) = 19 /\ ~DigitsGreater(StripZeros(ds), MaxInt64Digits)

\* C18: parseNumFromText returns the integer the remainder of the extracted
\* text parses to, 0 when the text is empty or the remainder does not
\* parse, and never a negative number; "1,234 views" gives 1234 and
\* "No views" gives 0.
C18_ParseNumFromText ==
  (fn = "parseNumFromText" /\ Returned) =>
    LET text == parseText(arg) IN
      /\ ~out.neg
      /\ (text # <<>> /\ ParsesAsInteger(Remainder(text)))
           => out.digits = StripZeros(Remainder(text))
      /\ (text = <<>> \/ ~ParsesAsInteger(Remainder(text)))
           => out.digits = <<"0">>
      /\ text = <<"1", ",", "2", "3", "4", " ", "v", "i", "e", "w", "s">> => out.digits = <<"1", "2", "3", "4">>
      /\ text = <<"N", "o", " ", "v", "i", "e", "w", "s">> => out.digits = <<"0">>

\* C18 witness: the simpleText node "1,234 views" has given 1234.
C18_Witness ==
  /\ fn = "parseNumFromText"
  /\ arg = [t |-> "object", runs |-> Missing,
            simpleText |-> [t |-> "string", s |-> <<"1", ",", "2", "3", "4", " ", "v", "i", "e", "w", "s">>]]
  /\ out = [neg |-> FALSE, digits |-> <<"1", "2", "3", "4">>]

\* C21 (as stated): findTokenRecursively returns the same token on every
\* invocation with the same value: the token returned is the only one the
\* function can return for it.
C21_FallbackDeterministic ==
  (fn = "findTokenRecursively" /\ Returned) =>
    \A x \in findTokenRecursively(arg) : out = Str(x)

\* C22 (as stated): the views of a decoded search video are the result of
\* parseNumFromText on its viewCountText, absent exactly when that result
\* is 0.
C22_ViewsByNumericExtractor ==
  (fn = "parseVideoViews" /\ Returned) =>
    out = (IF parseNumFromText(arg) = Zero THEN [present |-> FALSE, views |-> Zero]
           ELSE [present |-> TRUE, views |-> parseNumFromText(arg)])

\* Some owner-badge tooltip of the renderer, in upper case, contains
\* VERIFIED or OFFICIAL.
SomeTooltipVerified(obj) ==
  \E i \in 1..Len(obj.ownerBadges.items) :
    LET tooltip == Walk(obj.ownerBadges.items[i], <<"metadataBadgeRenderer", "tooltip">>) IN
      /\ tooltip.t = "string"
      /\ \/ Contains(ToUpper(tooltip.s), VERIFIED)
         \/ Contains(ToUpper(tooltip.s), OFFICIAL)

\* C23 (as stated): the Verified flag of a video's author is true exactly
\* when some owner-badge tooltip, after case normalization, contains
\* VERIFIED or OFFICIAL.
C23_VerifiedCaseNormalized ==
  (fn = "parseAuthor" /\ Returned /\ out.kind = "author") =>
    out.Verified = (arg.ownerBadges.t = "array" /\ SomeTooltipVerified(arg))

\* C25 (as stated): getContinuationToken returns "" for a continuation
\* marker only when no continuationCommand.token pair in the marker holds
\* a non-empty string.
C25_EmptyOnlyWithoutToken ==
  (/\ fn = "getContinuationToken"
   /\ Returned
   /\ Walk(arg, <<"continuationItemRenderer">>).t = "object"
   /\ out = Str(""))
    => TokensIn(Walk(arg, <<"continuationItemRenderer">>)) \subseteq {""}

\* The link's path ends in /user/<name> or /c/<name>.
UserOrCustomURL(link) ==
  /\ link.kind = "url"
  /\ Len(link.path) >= 2
  /\ link.path[Len(link.path) - 1] \in {"user", "c"}

\* C30: for every input that is no /user/ or /c/ URL, ValidateID returns
\* true exactly when GetPlaylistID returns an ID without error.
C30_ValidateAgreesWithGetPlaylistID ==
  (fn = "ValidateID" /\ Returned /\ ~UserOrCustomURL(arg)) =>
    /\ out.value => \A r \in GetPlaylistID(arg) : r.err = ""
    /\ ~out.value => \A r \in GetPlaylistID(arg) : r.err # ""

\* C30 witness: ValidateID has returned true for a /channel/ link, for
\* which GetPlaylistID returns the uploads list.
C30_Witness ==
  /\ fn = "ValidateID"
  /\ arg.kind = "url"
  /\ arg.host = "youtube.com"
  /\ ~arg.list.present
  /\ arg.path = <<"channel", [prefix |-> "UC", ch |-> "a", n |-> 22]>>
  /\ out = [kind |-> "bool", value |-> TRUE]
  /\ GetPlaylistID(arg) = {Ok([prefix |-> "UU", ch |-> "a", n |-> 22])}

====
